---- MODULE Spec2Model ----
(***************************************************************************)
(* Model of knarkzel/tis-100, src/main.rs: the node virtual machine        *)
(* (Node::run_instruction), the line parser (Node::parse, Port::parse) and  *)
(* the command shell (Program::check_commands).                            *)
(*                                                                         *)
(* Text.  A Rust string is modelled as a sequence of atoms.  An atom is a  *)
(* short piece of text written as a TLA+ string: a single character such   *)
(* as " ", "#", ":", ",", "-", "1", "a", "A", or a whole keyword such as   *)
(* "jmp".  The atoms are chosen so that no concatenation of two or more of *)
(* them spells a keyword, hence comparing a word with a keyword is         *)
(* comparing it with the one-atom sequence of that keyword.  Every string  *)
(* operation of the source is computed on these sequences.                 *)
(*                                                                         *)
(* Indices.  usize values and Vec indices are 0-based as in the source;    *)
(* the k-th element (0-based) of a Vec v is v[k + 1] in the model.         *)
(***************************************************************************)
EXTENDS Integers, Sequences, FiniteSets

\* pos, nodes: the fields of Program
\* files:      the .ron files on disk, by title
\* steps:      the number of calls made so far
\* last:       the call just made (what was called, on which node, the node
\*             before the call, the line handed over, how the call ended)
\* before:     the Program as it was when the last shell command or grid
\*             tick started
VARIABLES pos, nodes, files, steps, last, before

vars == <<pos, nodes, files, steps, last, before>>

(***************************************************************************)
(* Bounds of the model.                                                    *)
(***************************************************************************)
\* longest instruction list a node starts a run with
MaxProg == 3
\* registers of a node that starts a run are drawn from -MaxAcc..MaxAcc
MaxAcc == 1

\* number of run_instruction calls explored from an initial node
MaxSteps == MaxProg + 1

(***************************************************************************)
(* Option<T>                                                               *)
(***************************************************************************)
None == [some |-> FALSE]

Some(v) == [some |-> TRUE, value |-> v]

(***************************************************************************)
(* Label, Port, Instruction                                                *)
(***************************************************************************)
\* struct Label(String): a wrapper whose derived equality is the string's
Label(s) == s

Acc == [port |-> "Acc"]

Left == [port |-> "Left"]

Right == [port |-> "Right"]

Up == [port |-> "Up"]

Down == [port |-> "Down"]

Any == [port |-> "Any"]

Last == [port |-> "Last"]

Nil == [port |-> "Nil"]

Value(n) == [port |-> "Value", value |-> n]

Nop == [op |-> "Nop"]

Swp == [op |-> "Swp"]

Sav == [op |-> "Sav"]

Neg == [op |-> "Neg"]

Comment(text) == [op |-> "Comment", text |-> text]

CreateLabel(label) == [op |-> "CreateLabel", label |-> label]

Jmp(label) == [op |-> "Jmp", label |-> label]

Jez(label) == [op |-> "Jez", label |-> label]

Jnz(label) == [op |-> "Jnz", label |-> label]

Jgz(label) == [op |-> "Jgz", label |-> label]

Jlz(label) == [op |-> "Jlz", label |-> label]

Jro(port) == [op |-> "Jro", port |-> port]

Add(port) == [op |-> "Add", port |-> port]

Sub(port) == [op |-> "Sub", port |-> port]

Mov(from, to) == [op |-> "Mov", from |-> from, to |-> to]

(***************************************************************************)
(* Node                                                                    *)
(***************************************************************************)
\* Node::new() is Node::default(): zero registers, empty vectors
NodeNew ==
  [acc |-> 0, bak |-> 0, pc |-> 0, label_positions |-> <<>>, instructions |-> <<>>]

\* Vec::get(index)
Get(v, index) == IF index < Len(v) THEN Some(v[index + 1]) ELSE None

\* label_positions.iter().position(|x| x.0 == label): 0-based index of the
\* first entry of the table whose name is label
Position(label_positions, label) ==
  LET hits == {k \in 1..Len(label_positions) : label_positions[k][1] = label}
  IN IF hits = {} THEN None
     ELSE Some((CHOOSE k \in hits : \A j \in hits : k <= j) - 1)

\* the outcome of a call: the node it leaves and how the call ended
Returned(node) == [node |-> node, result |-> "Ok"]

Failed(node) == [node |-> node, result |-> "Err"]

\* a panic (todo!(), index out of bounds) unwinds out of main: the node is
\* left as it was when the panic started and the process ends
Panicked(node) == [node |-> node, result |-> "Panic"]

\* step! macro
Step(self) ==
  LET pc1 == self.pc + 1
  IN [self EXCEPT !.pc = IF pc1 > Len(self.instructions) THEN 0 ELSE pc1]

\* jump_label! as it would be if the fallback forgot step!()
JumpLabel_noStep(self, label) ==
  LET position == Position(self.label_positions, label)
  IN IF position.some THEN [self EXCEPT !.pc = position.value] ELSE self

\* jump_label! macro
JumpLabel(self, label) ==
  LET position == Position(self.label_positions, label)
  IN IF position.some THEN [self EXCEPT !.pc = position.value] ELSE Step(self)

\* the Swp arm as it would be without the temporary: bak is overwritten first
RunSwp_noTemp(self) == Step([self EXCEPT !.bak = self.acc, !.acc = self.acc])

RunSwp(self) == Step([self EXCEPT !.bak = self.acc, !.acc = self.bak])

RunSav(self) == Step([self EXCEPT !.bak = self.acc])

\* the Neg arm as it would be if it flipped the sign
RunNeg_flipSign(self) == Step([self EXCEPT !.acc = 0 - self.acc])

RunNeg(self) ==
  Step(IF self.acc < 0 THEN [self EXCEPT !.acc = self.acc - 1] ELSE self)

\* the CreateLabel arm as it would be without the `all` test
RunCreateLabel_alwaysPush(self, label) ==
  Step([self EXCEPT !.label_positions = Append(@, <<label, self.pc>>)])

RunCreateLabel(self, label) ==
  Step(IF \A k \in 1..Len(self.label_positions) : self.label_positions[k][1] # label
       THEN [self EXCEPT !.label_positions = Append(@, <<label, self.pc>>)]
       ELSE self)

RunJmp(self, label) == JumpLabel(self, label)

RunJez(self, label) == IF self.acc = 0 THEN JumpLabel(self, label) ELSE Step(self)

RunJnz(self, label) == IF self.acc # 0 THEN JumpLabel(self, label) ELSE Step(self)

RunJgz(self, label) == IF self.acc > 0 THEN JumpLabel(self, label) ELSE Step(self)

\* the Jlz arm as it would be with a strict comparison
RunJlz_strict(self, label) == IF self.acc < 0 THEN JumpLabel(self, label) ELSE Step(self)

RunJlz(self, label) == IF self.acc <= 0 THEN JumpLabel(self, label) ELSE Step(self)

\* Node::run_instruction
RunInstruction(self) ==
  LET instruction == Get(self.instructions, self.pc)
  IN IF ~instruction.some THEN Returned(self)
     ELSE LET i == instruction.value
          IN CASE i.op = "Swp" -> Returned(RunSwp(self))
               [] i.op = "Sav" -> Returned(RunSav(self))
               [] i.op = "Neg" -> Returned(RunNeg(self))
               [] i.op = "CreateLabel" -> Returned(RunCreateLabel(self, i.label))
               [] i.op = "Jmp" -> Returned(RunJmp(self, i.label))
               [] i.op = "Jez" -> Returned(RunJez(self, i.label))
               [] i.op = "Jnz" -> Returned(RunJnz(self, i.label))
               [] i.op = "Jgz" -> Returned(RunJgz(self, i.label))
               [] i.op = "Jlz" -> Returned(RunJlz(self, i.label))
               [] i.op \in {"Jro", "Add", "Sub", "Mov"} -> Panicked(self)
               [] OTHER -> Returned(Step(self))

(***************************************************************************)
(* Text operations of the standard library, on sequences of atoms          *)
(***************************************************************************)
\* char::to_lowercase on one atom: the upper-case atoms of the model
LowerAtom(a) ==
  CASE a = "A" -> "a"
    [] a = "SWP" -> "swp"
    [] a = "JMP" -> "jmp"
    [] OTHER -> a

\* str::to_lowercase
ToLowercase(s) == [k \in 1..Len(s) |-> LowerAtom(s[k])]

\* char::is_whitespace
IsWhitespace(a) == a = " "

\* str::split_whitespace, collected: the maximal runs of non-space atoms
RECURSIVE SplitFrom(_, _, _)
SplitFrom(s, k, word) ==
  IF k > Len(s) THEN (IF word = <<>> THEN <<>> ELSE <<word>>)
  ELSE IF IsWhitespace(s[k])
       THEN (IF word = <<>> THEN <<>> ELSE <<word>>) \o SplitFrom(s, k + 1, <<>>)
       ELSE SplitFrom(s, k + 1, Append(word, s[k]))

SplitWhitespace(s) == SplitFrom(s, 1, <<>>)

\* str::starts_with(c), c a one-character pattern
StartsWith(s, c) == Len(s) > 0 /\ s[1] = c

\* str::contains(c), c a one-character pattern
Contains(s, c) == \E k \in 1..Len(s) : s[k] = c

\* str::trim_end_matches(c), c a one-character pattern
RECURSIVE TrimEndMatches(_, _)
TrimEndMatches(s, c) ==
  IF Len(s) > 0 /\ s[Len(s)] = c THEN TrimEndMatches(SubSeq(s, 1, Len(s) - 1), c) ELSE s

Digits == {"0", "1", "2", "3", "4", "5", "6", "7", "8", "9"}

DigitValue(a) ==
  CASE a = "0" -> 0 [] a = "1" -> 1 [] a = "2" -> 2 [] a = "3" -> 3 [] a = "4" -> 4
    [] a = "5" -> 5 [] a = "6" -> 6 [] a = "7" -> 7 [] a = "8" -> 8 [] a = "9" -> 9

RECURSIVE Decimal(_)
Decimal(ds) ==
  IF ds = <<>> THEN 0
  ELSE 10 * Decimal(SubSeq(ds, 1, Len(ds) - 1)) + DigitValue(ds[Len(ds)])

\* str::parse::<isize>: an optional sign followed by one or more digits
ParseIsize(s) ==
  LET signed == Len(s) > 0 /\ s[1] \in {"+", "-"}
      ds == IF signed THEN SubSeq(s, 2, Len(s)) ELSE s
  IN IF ds # <<>> /\ \A k \in 1..Len(ds) : ds[k] \in Digits
     THEN [ok |-> TRUE,
           value |-> IF signed /\ s[1] = "-" THEN 0 - Decimal(ds) ELSE Decimal(ds)]
     ELSE [ok |-> FALSE]

(***************************************************************************)
(* Port::parse                                                             *)
(***************************************************************************)
\* Port::parse as it would be if the "last" arm repeated the one above it
PortParse_lastIsAny(token) ==
  CASE token = <<"acc">> -> [ok |-> TRUE, port |-> Acc]
    [] token = <<"nil">> -> [ok |-> TRUE, port |-> Nil]
    [] token = <<"left">> -> [ok |-> TRUE, port |-> Left]
    [] token = <<"right">> -> [ok |-> TRUE, port |-> Right]
    [] token = <<"up">> -> [ok |-> TRUE, port |-> Up]
    [] token = <<"down">> -> [ok |-> TRUE, port |-> Down]
    [] token = <<"any">> -> [ok |-> TRUE, port |-> Any]
    [] token = <<"last">> -> [ok |-> TRUE, port |-> Any]
    [] OTHER -> LET parsed == ParseIsize(token)
                IN IF parsed.ok THEN [ok |-> TRUE, port |-> Value(parsed.value)]
                   ELSE [ok |-> FALSE]

PortParse(token) ==
  CASE token = <<"acc">> -> [ok |-> TRUE, port |-> Acc]
    [] token = <<"nil">> -> [ok |-> TRUE, port |-> Nil]
    [] token = <<"left">> -> [ok |-> TRUE, port |-> Left]
    [] token = <<"right">> -> [ok |-> TRUE, port |-> Right]
    [] token = <<"up">> -> [ok |-> TRUE, port |-> Up]
    [] token = <<"down">> -> [ok |-> TRUE, port |-> Down]
    [] token = <<"any">> -> [ok |-> TRUE, port |-> Any]
    [] token = <<"last">> -> [ok |-> TRUE, port |-> Last]
    [] OTHER -> LET parsed == ParseIsize(token)
                IN IF parsed.ok THEN [ok |-> TRUE, port |-> Value(parsed.value)]
                   ELSE [ok |-> FALSE]

(***************************************************************************)
(* Node::parse.  words[k] of the source is words[k + 1] here; indexing     *)
(* past the end of words panics.                                           *)
(***************************************************************************)
\* push! macro: append and return Ok(())
Push(self, e) == Returned([self EXCEPT !.instructions = Append(@, e)])

\* jump! macro; i names the variant built, as in Jmp(label)
Jump(self, words, i) ==
  IF Len(words) < 2 THEN Panicked(self)
  ELSE Push(self, [op |-> i, label |-> Label(words[2])])

\* the jro, add and sub arms; i names the variant built, as in Jro(port)
ParseOnePort(self, words, i) ==
  IF Len(words) < 2 THEN Panicked(self)
  ELSE LET port == PortParse(words[2])
       IN IF ~port.ok THEN Failed(self) ELSE Push(self, [op |-> i, port |-> port.port])

\* the mov arm
ParseMov(self, words) ==
  IF Len(words) < 2 THEN Panicked(self)
  ELSE LET first == PortParse(TrimEndMatches(words[2], ","))
       IN IF ~first.ok THEN Failed(self)
          ELSE IF Len(words) < 3 THEN Panicked(self)
          ELSE LET second == PortParse(words[3])
               IN IF ~second.ok THEN Failed(self)
                  ELSE Push(self, Mov(first.port, second.port))

\* the pop arm
ParsePop(self) ==
  Returned([self EXCEPT !.instructions =
              IF Len(@) = 0 THEN @ ELSE SubSeq(@, 1, Len(@) - 1)])

\* the default arm as it would be if an unknown opcode were skipped like nop
Unrecognized_ignored(self, line) == Returned(self)

\* the default arm: Err(anyhow!("Failed to read ..."))
Unrecognized(self, line) == Failed(self)

Parse(self, line, words) ==
  IF StartsWith(line, "#") THEN Push(self, Comment(SubSeq(line, 2, Len(line))))
  ELSE IF Contains(line, ":")
  THEN Push(self, CreateLabel(Label(TrimEndMatches(line, ":"))))
  ELSE IF Len(words) < 1 THEN Panicked(self)
  ELSE CASE words[1] = <<"nop">> -> Returned(self)
         [] words[1] = <<"mov">> -> ParseMov(self, words)
         [] words[1] = <<"swp">> -> Push(self, Swp)
         [] words[1] = <<"sav">> -> Push(self, Sav)
         [] words[1] = <<"neg">> -> Push(self, Neg)
         [] words[1] = <<"jmp">> -> Jump(self, words, "Jmp")
         [] words[1] = <<"jez">> -> Jump(self, words, "Jez")
         [] words[1] = <<"jnz">> -> Jump(self, words, "Jnz")
         [] words[1] = <<"jgz">> -> Jump(self, words, "Jgz")
         [] words[1] = <<"jlz">> -> Jump(self, words, "Jlz")
         [] words[1] = <<"jro">> -> ParseOnePort(self, words, "Jro")
         [] words[1] = <<"add">> -> ParseOnePort(self, words, "Add")
         [] words[1] = <<"sub">> -> ParseOnePort(self, words, "Sub")
         [] words[1] = <<"pop">> -> ParsePop(self)
         [] OTHER -> Unrecognized(self, line)

\* the words Program::check_commands hands to Node::parse with the line
WordsOf(line) == SplitWhitespace(ToLowercase(line))

(***************************************************************************)
(* Program.  A Program value is [pos, nodes]; nodes maps the positions     *)
(* that hold a node to the node.  The disk maps the titles of the .ron     *)
(* files that exist to their content: the text of a serialized Program, or *)
(* text that does not deserialize.                                         *)
(***************************************************************************)
\* Program::get_node as it would be with insert in place of entry().or_insert
GetNode_insert(self, p) ==
  [self EXCEPT !.nodes =
     [q \in DOMAIN self.nodes \cup {p} |-> IF q = p THEN NodeNew ELSE self.nodes[q]]]

\* Program::get_node: entry(pos).or_insert(Node::new())
GetNode(self, p) ==
  IF p \in DOMAIN self.nodes THEN self
  ELSE [self EXCEPT !.nodes =
          [q \in DOMAIN self.nodes \cup {p} |-> IF q = p THEN NodeNew ELSE self.nodes[q]]]

\* the title of the file the save and load arms use
Title(words) ==
  IF Len(words) > 1 THEN words[2] \o <<".ron">> ELSE <<"node.ron">>

\* ser::to_string_pretty(self): the text holds every field of the Program
Serialized(self) == [kind |-> "ron", program |-> self]

\* a file cut short by a failed write: de::from_reader rejects it
Truncated == [kind |-> "truncated"]

\* the save arm.  fs::write either writes the whole text ("ok"), fails
\* before it creates the file ("denied") or fails after it truncated it
\* ("short"); the two failures return the io error
Save(self, title, disk, io) ==
  LET written(c) == [t \in DOMAIN disk \cup {title} |-> IF t = title THEN c ELSE disk[t]]
  IN CASE io = "ok" ->
            [program |-> self, files |-> written(Serialized(self)), result |-> "Ok"]
       [] io = "denied" -> [program |-> self, files |-> disk, result |-> "Err"]
       [] io = "short" -> [program |-> self, files |-> written(Truncated), result |-> "Err"]

\* the load arm: File::open fails when the file is missing, de::from_reader
\* when its text is no Program; only then is *self assigned
Load(self, title, disk) ==
  IF title \notin DOMAIN disk THEN [program |-> self, files |-> disk, result |-> "Err"]
  ELSE IF disk[title].kind # "ron"
  THEN [program |-> self, files |-> disk, result |-> "Err"]
  ELSE [program |-> disk[title].program, files |-> disk, result |-> "Ok"]

\* Program::check_commands.  The node at the cursor is looked up, and
\* created if absent, before the line is matched.
CheckCommands(self0, line, disk, io) ==
  LET self == GetNode(self0, self0.pos)
      at == self0.pos
      words == WordsOf(line)
      done(prog) == [program |-> prog, files |-> disk, result |-> "Ok"]
  IN CASE line = <<"show">> -> done(self)
       [] line = <<"help">> -> done(self)
       [] line = <<"clear">> -> done([self EXCEPT !.nodes[at].instructions = <<>>])
       [] line = <<"save">> -> Save(self, Title(words), disk, io)
       [] line = <<"load">> -> Load(self, Title(words), disk)
       [] line = <<"inst">> -> done(self)
       [] line = <<"left">> -> done([self EXCEPT !.pos = <<at[1] - 1, at[2]>>])
       [] line = <<"right">> -> done([self EXCEPT !.pos = <<at[1] + 1, at[2]>>])
       [] line = <<"up">> -> done([self EXCEPT !.pos = <<at[1], at[2] - 1>>])
       [] line = <<"down">> -> done([self EXCEPT !.pos = <<at[1], at[2] + 1>>])
       [] OTHER -> LET r == Parse(self.nodes[at], line, words)
                   IN [program |-> [self EXCEPT !.nodes[at] = r.node],
                       files |-> disk, result |-> r.result]

(***************************************************************************)
(* The run of a node.  Registers other than zero reach a node only through *)
(* `load` (Node derives Deserialize), so a run starts from a node as a     *)
(* program file gives it: any registers, any instruction list, pc = 0 and  *)
(* an empty label table.                                                   *)
(***************************************************************************)
PosDefault == <<0, 0>>

LabelNames == {<<"a">>, <<"b">>}

RunInstrs ==
  {Nop, Swp, Sav, Neg, Comment(<<"a">>)}
    \cup {CreateLabel(Label(l)) : l \in LabelNames}
    \cup {Jmp(Label(l)) : l \in LabelNames}
    \cup {Jez(Label(<<"a">>)), Jnz(Label(<<"a">>)), Jgz(Label(<<"a">>)), Jlz(Label(<<"a">>))}
    \cup {Jro(Acc), Add(Value(1)), Sub(Value(1)), Mov(Value(1), Acc)}

Programs == UNION {[1..n -> RunInstrs] : n \in 0..MaxProg}

AccRange == (0 - MaxAcc)..MaxAcc

\* the backup register starts at either end of the range or at zero
BakRange == {0 - MaxAcc, 0, MaxAcc}

RunNodes ==
  [acc : AccRange, bak : BakRange, pc : {0}, label_positions : {<<>>},
   instructions : Programs]

NoCall == [op |-> "none", at |-> PosDefault, pre |-> NodeNew, line |-> <<>>, result |-> "Ok"]

\* Program::default(): the cursor at the origin and no node
ProgramDefault == [pos |-> PosDefault, nodes |-> <<>>]

\* no .ron file has been written
NoFiles == <<>>

Init ==
  /\ pos = PosDefault
  /\ \E n \in RunNodes : nodes = [p \in {PosDefault} |-> n]
  /\ files = NoFiles
  /\ steps = 0
  /\ last = NoCall
  /\ before = ProgramDefault

\* one call of run_instruction on the node at p
Run(p) ==
  /\ last.result # "Panic"
  /\ steps < MaxSteps
  /\ LET r == RunInstruction(nodes[p])
     IN /\ nodes' = [nodes EXCEPT ![p] = r.node]
        /\ last' = [op |-> "run_instruction", at |-> p, pre |-> nodes[p],
                    line |-> <<>>, result |-> r.result]
  /\ steps' = steps + 1
  /\ UNCHANGED <<pos, files, before>>

Next == \E p \in DOMAIN nodes : Run(p)

Spec == Init /\ [][Next]_vars

(***************************************************************************)
(* Parsing one line.  The lines are a head word followed by up to          *)
(* MaxOperands operand words, separated by single spaces, as main hands    *)
(* them over after trim(); the node parsed into holds up to MaxSeed        *)
(* instructions that earlier lines ("swp", "a:") put there.                *)
(***************************************************************************)
\* most operand words on a line
MaxOperands == 3
\* most instructions in the node before the line is parsed
MaxSeed == 1

HeadWords ==
  {<<"nop">>, <<"mov">>, <<"swp">>, <<"sav">>, <<"neg">>, <<"jmp">>, <<"jez">>,
   <<"jnz">>, <<"jgz">>, <<"jlz">>, <<"jro">>, <<"add">>, <<"sub">>, <<"pop">>,
   <<"foo">>, <<"SWP">>, <<"JMP">>, <<"#">>, <<"#", "a">>, <<"a", ":">>, <<"A", ":">>}

OperandWords ==
  {<<"acc">>, <<"1">>, <<"-", "1">>, <<"1", ",">>, <<"a">>, <<"A">>, <<"a", ":">>}

RECURSIVE JoinWords(_)
JoinWords(ws) ==
  IF Len(ws) = 0 THEN <<>>
  ELSE IF Len(ws) = 1 THEN ws[1]
  ELSE ws[1] \o <<" ">> \o JoinWords(Tail(ws))

Lines ==
  {JoinWords(<<h>> \o ops) :
     h \in HeadWords, ops \in UNION {[1..n -> OperandWords] : n \in 0..MaxOperands}}

SeedInstrs == {Swp, CreateLabel(Label(<<"a">>))}

ParseNodes ==
  {[NodeNew EXCEPT !.instructions = is] :
     is \in UNION {[1..n -> SeedInstrs] : n \in 0..MaxSeed}}

InitParse ==
  /\ pos = PosDefault
  /\ \E n \in ParseNodes : nodes = [p \in {PosDefault} |-> n]
  /\ files = NoFiles
  /\ steps = 0
  /\ last = NoCall
  /\ before = ProgramDefault

\* one call of Node::parse on the node at p
ParseLine(p, line) ==
  /\ LET r == Parse(nodes[p], line, WordsOf(line))
     IN /\ nodes' = [nodes EXCEPT ![p] = r.node]
        /\ last' = [op |-> "parse", at |-> p, pre |-> nodes[p],
                    line |-> line, result |-> r.result]
  /\ UNCHANGED <<pos, files, steps, before>>

\* one line is parsed in each behaviour
NextParse ==
  /\ last.op = "none"
  /\ \E p \in DOMAIN nodes : \E line \in Lines : ParseLine(p, line)

SpecParse == InitParse /\ [][NextParse]_vars

(***************************************************************************)
(* Classifying one token.  Port::parse is applied to every token of up to  *)
(* MaxTokenLen atoms: the keywords, signs, digits and letters in any       *)
(* order, the empty token included (it is what `mov , acc` passes).        *)
(***************************************************************************)
\* most atoms in a token handed to Port::parse
MaxTokenLen == 2

PortAtoms ==
  {"acc", "nil", "left", "right", "up", "down", "any", "last",
   "+", "-", "0", "1", "7", "a", "A"}

PortTokens == UNION {[1..n -> PortAtoms] : n \in 0..MaxTokenLen}

InitPort ==
  /\ pos = PosDefault
  /\ nodes = <<>>
  /\ files = NoFiles
  /\ steps = 0
  /\ last = NoCall
  /\ before = ProgramDefault

\* one call of Port::parse; out is the Port returned, if any
PortParseCall(token) ==
  /\ LET r == PortParse(token)
     IN last' = [op |-> "port_parse", at |-> pos, pre |-> NodeNew, line |-> token,
                 result |-> IF r.ok THEN "Ok" ELSE "Err",
                 out |-> IF r.ok THEN Some(r.port) ELSE None]
  /\ UNCHANGED <<pos, nodes, files, steps, before>>

\* one token is classified in each behaviour
NextPort ==
  /\ last.op = "none"
  /\ \E token \in PortTokens : PortParseCall(token)

SpecPort == InitPort /\ [][NextPort]_vars

(***************************************************************************)
(* The shell.  main starts from Program::default() and hands each line it  *)
(* reads to check_commands; between lines a node may be run.  A behaviour  *)
(* makes at most MaxSteps calls.                                           *)
(***************************************************************************)
ShellCommands ==
  {<<"show">>, <<"help">>, <<"clear">>, <<"save">>, <<"load">>, <<"inst">>,
   <<"left">>, <<"right">>, <<"up">>, <<"down">>}

ShellLines ==
  ShellCommands
    \cup {<<"a", ":">>, <<"swp">>, <<"jmp", " ", "a">>, <<"jmp">>, <<"pop">>, <<"foo">>}

IoOutcomes == {"ok", "denied", "short"}

InitShell ==
  /\ pos = PosDefault
  /\ nodes = <<>>
  /\ files = NoFiles
  /\ steps = 0
  /\ last = NoCall
  /\ before = ProgramDefault

\* main: one line read and handed to check_commands
Command(line, io) ==
  /\ last.result # "Panic"
  /\ steps < MaxSteps
  /\ LET self == [pos |-> pos, nodes |-> nodes]
         r == CheckCommands(self, line, files, io)
     IN /\ pos' = r.program.pos
        /\ nodes' = r.program.nodes
        /\ files' = r.files
        /\ last' = [op |-> "check_commands", at |-> pos,
                    pre |-> IF pos \in DOMAIN nodes THEN nodes[pos] ELSE NodeNew,
                    line |-> line, result |-> r.result]
        /\ before' = self
  /\ steps' = steps + 1

NextShell ==
  \/ \E line \in ShellLines :
       \E io \in (IF line = <<"save">> THEN IoOutcomes ELSE {"ok"}) : Command(line, io)
  \/ \E p \in DOMAIN nodes : Run(p)

SpecShell == InitShell /\ [][NextShell]_vars

(***************************************************************************)
(* What the last call did: the node it ran on, before and after.           *)
(***************************************************************************)
Cur == nodes[last.at]

Pre == last.pre

Ran == last.op = "run_instruction"

\* the instruction the last run_instruction call fetched, if any
Fetched == Get(Pre.instructions, Pre.pc)

FetchedOp == IF Ran /\ Fetched.some THEN Fetched.value.op ELSE "none"

JumpOps == {"Jmp", "Jez", "Jnz", "Jgz", "Jlz"}

PlainOps == {"Nop", "Swp", "Sav", "Neg", "Comment", "CreateLabel"}

\* the index stored with the first entry of the table named label
RecordedIndex(table, label) == table[Position(table, label).value + 1][2]

\* the condition under which the specification lets a jump fire
Fires(op, acc) ==
  CASE op = "Jmp" -> TRUE
    [] op = "Jez" -> acc = 0
    [] op = "Jnz" -> acc # 0
    [] op = "Jgz" -> acc > 0
    [] op = "Jlz" -> acc <= 0

(***************************************************************************)
(* C1.  For a node with a non-empty instruction list, after every          *)
(* run_instruction call that started from pc = 0 and its successors, the   *)
(* program counter is a valid index: 0 <= pc < instructions.len().         *)
(***************************************************************************)
C1_PcValidAfterStep ==
  (Ran /\ Len(Cur.instructions) > 0) =>
    (0 <= Cur.pc /\ Cur.pc < Len(Cur.instructions))

(***************************************************************************)
(* C2.  Wrap-around law: on a list of N >= 1 instructions that are all     *)
(* Nop, Swp, Sav, Neg, Comment or CreateLabel, the N-th run_instruction    *)
(* call from pc = 0 leaves pc = 0, and each of the N-1 calls before it     *)
(* increases pc by one.                                                    *)
(***************************************************************************)
C2_WrapAroundAfterNSteps ==
  LET N == Len(Cur.instructions)
  IN (/\ Ran
      /\ N >= 1
      /\ \A k \in 1..N : Cur.instructions[k].op \in PlainOps) =>
       /\ steps < N => Cur.pc = Pre.pc + 1
       /\ steps = N => Cur.pc = 0

(***************************************************************************)
(* C3.  When a jump fires (Jmp always, Jez/Jnz/Jgz/Jlz when the condition  *)
(* on acc holds) and its label is in the label table, the call sets pc to  *)
(* the instruction index recorded for that label.                          *)
(***************************************************************************)
C3_JumpLandsOnRecordedIndex ==
  (/\ FetchedOp \in JumpOps
   /\ Fires(FetchedOp, Pre.acc)
   /\ Position(Pre.label_positions, Fetched.value.label).some) =>
    Cur.pc = RecordedIndex(Pre.label_positions, Fetched.value.label)

(***************************************************************************)
(* C4.  A jump (Jmp included) whose label is not in the label table does   *)
(* not crash, advances pc by exactly one and leaves acc, bak, the label    *)
(* table and the instruction list as they were.                            *)
(***************************************************************************)
C4_UnresolvedJumpAdvancesByOne ==
  (/\ FetchedOp \in JumpOps
   /\ ~Position(Pre.label_positions, Fetched.value.label).some) =>
    /\ last.result = "Ok"
    /\ Cur = [Pre EXCEPT !.pc = Pre.pc + 1]

\* an unconditional jump to an undeclared label was executed as the last
\* instruction of the list
C4_Witness ==
  /\ FetchedOp = "Jmp"
  /\ ~Position(Pre.label_positions, Fetched.value.label).some
  /\ Pre.pc + 1 = Len(Pre.instructions)
  /\ Cur.pc = Pre.pc + 1

(***************************************************************************)
(* C5.  Jgz and Jlz are complementary.  Where the jump is observable (the  *)
(* label is in the table and its target is not pc + 1): Jlz leaves the     *)
(* plain pc + 1 path exactly when acc <= 0, Jgz exactly when acc > 0, the  *)
(* one that does not jump advances pc by one, and on the same node the     *)
(* other of the two instructions does the opposite.                        *)
(***************************************************************************)
C5_JgzJlzComplementary ==
  (/\ FetchedOp \in {"Jgz", "Jlz"}
   /\ Position(Pre.label_positions, Fetched.value.label).some
   /\ Position(Pre.label_positions, Fetched.value.label).value # Pre.pc + 1) =>
    LET l == Fetched.value.label
        other == IF FetchedOp = "Jgz" THEN Jlz(l) ELSE Jgz(l)
        alt == RunInstruction([Pre EXCEPT !.instructions[Pre.pc + 1] = other]).node
        jumped == Cur.pc # Pre.pc + 1
        altJumped == alt.pc # Pre.pc + 1
    IN /\ jumped # altJumped
       /\ FetchedOp = "Jlz" => (jumped <=> Pre.acc <= 0)
       /\ FetchedOp = "Jgz" => (jumped <=> Pre.acc > 0)
       /\ last.result = "Ok"

\* Jlz jumped with acc = 0
C5_Witness ==
  /\ FetchedOp = "Jlz"
  /\ Pre.acc = 0
  /\ Position(Pre.label_positions, Fetched.value.label).some
  /\ Cur.pc # Pre.pc + 1

(***************************************************************************)
(* C6.  Neg with acc < 0 decrements acc by exactly one; Neg with acc >= 0  *)
(* leaves acc as it was; either way bak, the label table and the           *)
(* instruction list are unchanged and pc advances by one.                  *)
(***************************************************************************)
C6_NegDecrementsNegativeAcc ==
  (FetchedOp = "Neg") =>
    /\ Pre.acc < 0 => Cur.acc = Pre.acc - 1
    /\ Pre.acc >= 0 => Cur.acc = Pre.acc
    /\ Cur.bak = Pre.bak
    /\ Cur.label_positions = Pre.label_positions
    /\ Cur.instructions = Pre.instructions
    /\ Cur.pc = Pre.pc + 1

\* Neg ran on a negative accumulator
C6_Witness ==
  /\ FetchedOp = "Neg"
  /\ Pre.acc < 0
  /\ Cur.acc = Pre.acc - 1

(***************************************************************************)
(* C7.  The label table has at most one entry per label name, and an entry *)
(* keeps the index the first executed declaration of its name recorded:    *)
(* a call never changes or removes an entry, a declaration of a name that  *)
(* is absent appends (name, pc), and any other call leaves the table as it *)
(* was.                                                                    *)
(***************************************************************************)
C7_LabelFirstOccurrenceWins ==
  LET T == Cur.label_positions
      P == Pre.label_positions
  IN /\ \A j, k \in 1..Len(T) : T[j][1] = T[k][1] => j = k
     /\ Ran =>
          IF FetchedOp = "CreateLabel" /\ ~Position(P, Fetched.value.label).some
          THEN T = Append(P, <<Fetched.value.label, Pre.pc>>)
          ELSE T = P

\* a declaration of a name already recorded at another index was executed
C7_Witness ==
  /\ FetchedOp = "CreateLabel"
  /\ Position(Pre.label_positions, Fetched.value.label).some
  /\ RecordedIndex(Pre.label_positions, Fetched.value.label) # Pre.pc
  /\ Cur.label_positions = Pre.label_positions

(***************************************************************************)
(* What the last Node::parse call was given.                               *)
(***************************************************************************)
Parsed == last.op = "parse"

LineWords == WordsOf(last.line)

\* the first token of the line, lower-cased as the parser sees it
FirstToken == IF Parsed /\ Len(LineWords) > 0 THEN LineWords[1] ELSE <<>>

IsCommentLine == Parsed /\ StartsWith(last.line, "#")

IsLabelLine == Parsed /\ ~StartsWith(last.line, "#") /\ Contains(last.line, ":")

\* neither a comment nor a label declaration: the line goes to opcode dispatch
IsOpcodeLine == Parsed /\ ~IsCommentLine /\ ~IsLabelLine

NoOperandOpcodes == {<<"nop">>, <<"swp">>, <<"sav">>, <<"neg">>}

LabelOpcodes == {<<"jmp">>, <<"jez">>, <<"jnz">>, <<"jgz">>, <<"jlz">>}

PortOpcodes == {<<"jro">>, <<"add">>, <<"sub">>}

Opcodes == NoOperandOpcodes \cup LabelOpcodes \cup PortOpcodes \cup {<<"mov">>}

\* the call appended exactly one instruction and kept the earlier ones
AppendedOne ==
  /\ Len(Cur.instructions) = Len(Pre.instructions) + 1
  /\ SubSeq(Cur.instructions, 1, Len(Pre.instructions)) = Pre.instructions

\* a recognized opcode followed by the operands the specification asks for
ValidOpcodeLine ==
  /\ IsOpcodeLine
  /\ \/ FirstToken \in NoOperandOpcodes /\ Len(LineWords) = 1
     \/ FirstToken \in LabelOpcodes /\ Len(LineWords) = 2
     \/ FirstToken \in PortOpcodes /\ Len(LineWords) = 2 /\ PortParse(LineWords[2]).ok
     \/ /\ FirstToken = <<"mov">>
        /\ Len(LineWords) = 3
        /\ PortParse(TrimEndMatches(LineWords[2], ",")).ok
        /\ PortParse(LineWords[3]).ok

\* a recognized opcode with the wrong number of operand tokens
WrongOperandCount ==
  /\ IsOpcodeLine
  /\ \/ FirstToken = <<"mov">> /\ Len(LineWords) # 3
     \/ FirstToken \in LabelOpcodes \cup PortOpcodes /\ Len(LineWords) = 1

(***************************************************************************)
(* C8.  Parse atomicity: Node::parse either succeeds and the instruction   *)
(* list has grown by exactly one instruction appended at the end, or fails *)
(* and the list is unchanged; every line with an opcode of the closed set  *)
(* and valid operands appends exactly one instruction.                     *)
(***************************************************************************)
C8_ParseAppendsOneOrNothing ==
  Parsed =>
    /\ \/ last.result = "Ok" /\ AppendedOne
       \/ last.result = "Err" /\ Cur.instructions = Pre.instructions
    /\ ValidOpcodeLine => (last.result = "Ok" /\ AppendedOne)

(***************************************************************************)
(* C9 as claimed.  A line that is neither a comment nor a label            *)
(* declaration and whose first token is not one of the thirteen opcodes    *)
(* makes Node::parse return an error and leaves the instruction list as it *)
(* was.                                                                    *)
(***************************************************************************)
C9_OnlyOpcodesAccepted ==
  (IsOpcodeLine /\ FirstToken \notin Opcodes) =>
    (last.result = "Err" /\ Cur.instructions = Pre.instructions)

(***************************************************************************)
(* C9 as amended.  A line that is neither a comment nor a label            *)
(* declaration and whose first token (lower-cased) is neither one of the   *)
(* thirteen opcodes nor `pop` makes Node::parse return an error and leaves *)
(* the node, its instruction list included, as it was.                     *)
(***************************************************************************)
C9_UnknownFirstTokenRejected ==
  (IsOpcodeLine /\ FirstToken \notin Opcodes \cup {<<"pop">>}) =>
    (last.result = "Err" /\ Cur = Pre)

\* an unknown opcode with operands was rejected on a node that holds an
\* instruction
C9_Witness ==
  /\ IsOpcodeLine
  /\ FirstToken = <<"foo">>
  /\ Len(LineWords) > 1
  /\ Len(Pre.instructions) > 0
  /\ last.result = "Err"
  /\ Cur.instructions = Pre.instructions

(***************************************************************************)
(* C10.  A line with a recognized opcode and the wrong number of operand   *)
(* tokens (mov with fewer or more than two; jmp, jez, jnz, jgz, jlz, jro,  *)
(* add or sub with none) makes Node::parse return a parse error, without   *)
(* crashing and without changing the instruction list.                     *)
(***************************************************************************)
C10_WrongOperandCountIsError ==
  WrongOperandCount =>
    (last.result = "Err" /\ Cur.instructions = Pre.instructions)

(***************************************************************************)
(* C12.  Add(p) or Sub(p), p an immediate value or the accumulator port,   *)
(* completes within the step without suspension or crash, sets acc to      *)
(* acc + v or acc - v (v the value read from p), leaves bak unchanged and  *)
(* advances the program counter.                                           *)
(***************************************************************************)
C12_AddSubOnLocalPort ==
  (/\ FetchedOp \in {"Add", "Sub"}
   /\ Fetched.value.port.port \in {"Value", "Acc"}) =>
    LET v == IF Fetched.value.port.port = "Value" THEN Fetched.value.port.value
             ELSE Pre.acc
    IN /\ last.result = "Ok"
       /\ Cur.acc = IF FetchedOp = "Add" THEN Pre.acc + v ELSE Pre.acc - v
       /\ Cur.bak = Pre.bak
       /\ Cur.pc = Pre.pc + 1

(***************************************************************************)
(* C16.  Swp sets (acc, bak) to the previous (bak, acc), so a second Swp   *)
(* right after it restores both registers; Sav sets bak to acc and leaves  *)
(* acc unchanged; Nop and Comment change neither register; each of the     *)
(* four leaves the label table and the instruction list unchanged and      *)
(* advances the program counter by one.                                    *)
(***************************************************************************)
C16_RegisterInstructions ==
  (FetchedOp \in {"Swp", "Sav", "Nop", "Comment"}) =>
    /\ last.result = "Ok"
    /\ FetchedOp = "Swp" => (Cur.acc = Pre.bak /\ Cur.bak = Pre.acc)
    /\ FetchedOp = "Sav" => (Cur.acc = Pre.acc /\ Cur.bak = Pre.acc)
    /\ FetchedOp \in {"Nop", "Comment"} => (Cur.acc = Pre.acc /\ Cur.bak = Pre.bak)
    /\ Cur.label_positions = Pre.label_positions
    /\ Cur.instructions = Pre.instructions
    /\ Cur.pc = Pre.pc + 1
    /\ (/\ FetchedOp = "Swp"
        /\ Get(Cur.instructions, Cur.pc).some
        /\ Get(Cur.instructions, Cur.pc).value.op = "Swp") =>
         LET again == RunInstruction(Cur).node
         IN again.acc = Pre.acc /\ again.bak = Pre.bak

\* a second Swp in a row has just restored two different registers
C16_Witness ==
  /\ FetchedOp = "Swp"
  /\ Pre.acc # Pre.bak
  /\ Pre.pc > 0
  /\ Pre.instructions[Pre.pc].op = "Swp"
  /\ Cur.acc = Pre.bak
  /\ Cur.bak = Pre.acc

(***************************************************************************)
(* C14.  Every line that contains `:` and does not start with `#` is       *)
(* parsed as a label declaration, never dispatched as an opcode, and the   *)
(* label name stored is exactly the text before the colon in its original  *)
(* letter case, also when text follows the colon.                          *)
(***************************************************************************)
\* the part of the line in front of its first colon
TextBeforeColon(line) ==
  LET k == CHOOSE j \in 1..Len(line) :
             line[j] = ":" /\ \A m \in 1..(j - 1) : line[m] # ":"
  IN SubSeq(line, 1, k - 1)

C14_LabelIsTextBeforeColon ==
  IsLabelLine =>
    /\ last.result = "Ok"
    /\ AppendedOne
    /\ Cur.instructions[Len(Cur.instructions)]
         = CreateLabel(Label(TextBeforeColon(last.line)))

(***************************************************************************)
(* C18.  For every label name, upper-case letters included, the label      *)
(* carried by the instruction parsed from `jmp <name>` (likewise jez, jnz, *)
(* jgz, jlz) equals the label carried by the declaration parsed from       *)
(* `<name>:`.                                                              *)
(***************************************************************************)
C18_JumpAndDeclarationAgree ==
  LET raw == SplitWhitespace(last.line)
  IN (/\ IsOpcodeLine
      /\ FirstToken \in LabelOpcodes
      /\ Len(raw) = 2
      /\ ~StartsWith(raw[2], "#")) =>
       LET declLine == raw[2] \o <<":">>
           decl == Parse(Pre, declLine, WordsOf(declLine)).node.instructions
       IN /\ last.result = "Ok"
          /\ AppendedOne
          /\ Cur.instructions[Len(Cur.instructions)].label = decl[Len(decl)].label

(***************************************************************************)
(* C15.  Port::parse maps each of acc, nil, left, right, up, down, any,    *)
(* last to its own port variant, maps every other token that is a signed   *)
(* integer literal to the immediate variant carrying that integer, and     *)
(* fails for every remaining token.                                        *)
(***************************************************************************)
\* the variant the specification gives each keyword
KeywordVariant(t) ==
  CASE t = <<"acc">> -> "Acc"
    [] t = <<"nil">> -> "Nil"
    [] t = <<"left">> -> "Left"
    [] t = <<"right">> -> "Right"
    [] t = <<"up">> -> "Up"
    [] t = <<"down">> -> "Down"
    [] t = <<"any">> -> "Any"
    [] t = <<"last">> -> "Last"
    [] OTHER -> "none"

\* the digits of a token once one leading sign is taken off
LiteralDigits(t) ==
  IF Len(t) > 0 /\ t[1] \in {"+", "-"} THEN Tail(t) ELSE t

\* a signed integer literal: an optional sign and at least one digit
IsIntLiteral(t) ==
  /\ Len(LiteralDigits(t)) > 0
  /\ \A k \in 1..Len(LiteralDigits(t)) : LiteralDigits(t)[k] \in Digits

\* the integer a literal denotes, read from the left
RECURSIVE Horner(_, _)
Horner(ds, n) == IF ds = <<>> THEN n ELSE Horner(Tail(ds), 10 * n + DigitValue(Head(ds)))

LiteralValue(t) ==
  IF t[1] = "-" THEN 0 - Horner(LiteralDigits(t), 0) ELSE Horner(LiteralDigits(t), 0)

C15_PortTokenClassification ==
  (last.op = "port_parse") =>
    LET t == last.line
    IN /\ KeywordVariant(t) # "none" =>
            (last.result = "Ok" /\ last.out = Some([port |-> KeywordVariant(t)]))
       /\ (KeywordVariant(t) = "none" /\ IsIntLiteral(t)) =>
            (last.result = "Ok" /\ last.out = Some(Value(LiteralValue(t))))
       /\ (KeywordVariant(t) = "none" /\ ~IsIntLiteral(t)) =>
            (last.result = "Err" /\ last.out = None)

\* a negative literal was parsed to its immediate
C15_Witness ==
  /\ last.op = "port_parse"
  /\ last.line = <<"-", "7">>
  /\ last.out = Some(Value(0 - 7))

(***************************************************************************)
(* What the last shell command was given.                                  *)
(***************************************************************************)
Commanded == last.op = "check_commands"

\* the Program after the last command
Now == [pos |-> pos, nodes |-> nodes]

MoveCommands == {<<"left">>, <<"right">>, <<"up">>, <<"down">>}

\* the movement that goes the other way
Opposite(line) ==
  CASE line = <<"left">> -> <<"right">>
    [] line = <<"right">> -> <<"left">>
    [] line = <<"up">> -> <<"down">>
    [] line = <<"down">> -> <<"up">>

(***************************************************************************)
(* C11.  A `load` command that fails (file missing or not deserializable)  *)
(* leaves the whole in-memory program identical to the state before the    *)
(* command: the cursor position and the complete position-to-node mapping, *)
(* including which positions have a node.                                  *)
(***************************************************************************)
C11_FailedLoadLeavesProgram ==
  (Commanded /\ last.line = <<"load">> /\ last.result = "Err") =>
    /\ pos = before.pos
    /\ DOMAIN nodes = DOMAIN before.nodes
    /\ \A q \in DOMAIN nodes : nodes[q] = before.nodes[q]

(***************************************************************************)
(* C17.  After any interleaving of steps and authoring operations (parse,  *)
(* clear, pop), every label-table entry (name, i) of every node satisfies  *)
(* i < instructions.len() and the instruction at index i is the            *)
(* declaration of that name.                                               *)
(***************************************************************************)
C17_LabelTableMatchesInstructions ==
  \A q \in DOMAIN nodes :
    \A k \in 1..Len(nodes[q].label_positions) :
      LET name == nodes[q].label_positions[k][1]
          i == nodes[q].label_positions[k][2]
      IN /\ i < Len(nodes[q].instructions)
         /\ nodes[q].instructions[i + 1] = CreateLabel(name)

(***************************************************************************)
(* C19.  An instruction line (not show, help, clear, save, load, inst or a *)
(* movement) handed to check_commands can change only the instruction list *)
(* of the node at the cursor: that node's acc, bak, pc and label table,    *)
(* the cursor, and every field of every other existing node are unchanged. *)
(* A movement command changes no existing node, and the opposite movement  *)
(* brings the cursor back.                                                 *)
(***************************************************************************)
C19_AuthoringIsLocal ==
  /\ (Commanded /\ last.line \notin ShellCommands) =>
       /\ pos = before.pos
       /\ \A q \in DOMAIN before.nodes :
            /\ q \in DOMAIN nodes
            /\ q # before.pos => nodes[q] = before.nodes[q]
            /\ q = before.pos =>
                 nodes[q] = [before.nodes[q] EXCEPT !.instructions = nodes[q].instructions]
       /\ \A q \in DOMAIN nodes :
            (q \notin DOMAIN before.nodes) =>
              (q = before.pos /\ nodes[q] = [NodeNew EXCEPT !.instructions = nodes[q].instructions])
  /\ (Commanded /\ last.line \in MoveCommands) =>
       /\ \A q \in DOMAIN before.nodes : q \in DOMAIN nodes /\ nodes[q] = before.nodes[q]
       /\ CheckCommands(Now, Opposite(last.line), files, "ok").program.pos = before.pos

\* an instruction was appended to the node at the cursor while another
\* node, which had been run, held instructions
C19_Witness ==
  /\ Commanded
  /\ last.line = <<"swp">>
  /\ last.result = "Ok"
  /\ nodes[pos].instructions = Append(last.pre.instructions, Swp)
  /\ \E q \in DOMAIN before.nodes :
       q # pos /\ before.nodes[q].pc > 0 /\ Len(before.nodes[q].instructions) > 0


(***************************************************************************)
(* The grid.  Two adjacent nodes, one at the origin and one to its right   *)
(* (`right` adds one to pos.0), each with a program of up to MaxGridProg   *)
(* instructions.  A tick lets every node attempt one run_instruction, in   *)
(* an order the map's iteration chooses; a panic in a node ends the tick   *)
(* and the process.                                                        *)
(***************************************************************************)
MaxGridProg == 1

GridLeft == PosDefault

GridRight == <<PosDefault[1] + 1, PosDefault[2]>>

GridInstrs == {Nop, Swp, Mov(Right, Acc), Mov(Left, Acc)}

GridPrograms == UNION {[1..n -> GridInstrs] : n \in 1..MaxGridProg}

GridNodes ==
  [acc : AccRange, bak : {0}, pc : {0}, label_positions : {<<>>},
   instructions : GridPrograms]

InitGrid ==
  /\ pos = PosDefault
  /\ \E l \in GridNodes : \E r \in GridNodes :
       nodes = [p \in {GridLeft, GridRight} |-> IF p = GridLeft THEN l ELSE r]
  /\ files = NoFiles
  /\ steps = 0
  /\ last = NoCall
  /\ before = ProgramDefault

\* the orders in which a sweep can visit the two nodes
SweepOrders == {<<GridLeft, GridRight>>, <<GridRight, GridLeft>>}

\* every node in turn attempts one run_instruction
RECURSIVE Sweep(_, _)
Sweep(grid, order) ==
  IF order = <<>> THEN [nodes |-> grid, result |-> "Ok"]
  ELSE LET r == RunInstruction(grid[Head(order)])
           stepped == [grid EXCEPT ![Head(order)] = r.node]
       IN IF r.result = "Panic" THEN [nodes |-> stepped, result |-> "Panic"]
          ELSE Sweep(stepped, Tail(order))

\* one tick of the grid
Tick(order) ==
  /\ last.result # "Panic"
  /\ steps < MaxSteps
  /\ LET r == Sweep(nodes, order)
     IN /\ nodes' = r.nodes
        /\ last' = [op |-> "tick", at |-> Head(order), pre |-> nodes[Head(order)],
                    line |-> <<>>, result |-> r.result]
  /\ before' = [pos |-> pos, nodes |-> nodes]
  /\ steps' = steps + 1
  /\ UNCHANGED <<pos, files>>

NextGrid == \E order \in SweepOrders : Tick(order)

SpecGrid == InitGrid /\ [][NextGrid]_vars

\* the node's current instruction reads from the port `from`
ReceivesFrom(node, from) ==
  LET instruction == Get(node.instructions, node.pc)
  IN /\ instruction.some
     /\ \/ instruction.value.op = "Mov" /\ instruction.value.from = from
        \/ instruction.value.op \in {"Add", "Sub", "Jro"} /\ instruction.value.port = from

(***************************************************************************)
(* C13.  In a grid of two adjacent nodes where each node's current         *)
(* instruction is a receive from the other node, one tick reports the grid *)
(* as deadlocked, and acc, bak and pc of both nodes are the same after the *)
(* tick as before it.                                                      *)
(***************************************************************************)
C13_DeadlockReported ==
  (/\ last.op = "tick"
   /\ ReceivesFrom(before.nodes[GridLeft], Right)
   /\ ReceivesFrom(before.nodes[GridRight], Left)) =>
    /\ last.result = "Deadlock"
    /\ \A p \in {GridLeft, GridRight} :
         /\ nodes[p].acc = before.nodes[p].acc
         /\ nodes[p].bak = before.nodes[p].bak
         /\ nodes[p].pc = before.nodes[p].pc

=============================================================================
